---- MODULE Spec2Model ----
(***************************************************************************)
(* Model of backend/main.py: the OpenAI-compatible proxy in front of an    *)
(* Ollama server.  One client request is followed from the entry of its    *)
(* handler (chat_completions, completions or health_check) to the end of   *)
(* its response; SpecPair follows two requests in flight together.         *)
(* The upstream server and the network are the environment: every answer  *)
(* the upstream can give (a status, a line, the end of the stream, a       *)
(* connection fault) is chosen nondeterministically where the code awaits  *)
(* it.  Generated ids (uuid4) and timestamps (time.time) are left out of   *)
(* the chunks and responses: no handler reads them back.                   *)
(*                                                                         *)
(* Floats are written in tenths (0.7 is 7).  A JSON member that may be     *)
(* missing or null is a record [t, i]: t is "absent", "null" or "int".     *)
(***************************************************************************)
EXTENDS Integers, Sequences, FiniteSets, TLC

VARIABLES
    endpoint,        \* "chat" (chat_completions), "completions" or "health"
    request,         \* the validated request body (ChatCompletionRequest / CompletionRequest)
    ollama_payload,  \* the payload built for POST /api/generate
    pc,              \* position of the handler / of its generate_stream generator
    status_code,     \* response.status_code of the upstream answer, 0 before it
    data,            \* the parsed upstream line being translated (json.loads(line))
    out,             \* the SSE frames yielded to the client so far, in order
    script,          \* the lines the upstream sends on this connection, in order
    ending,          \* what follows the last line of script: end of body or a fault
    lines,           \* the upstream lines read so far by aiter_lines(), in order
    error_msg,       \* the body read from a non-success upstream answer
    ollama_response, \* response.json() of the non-stream upstream answer
    exc,             \* the exception raised inside the handler or generator, if any
    posts,           \* number of POST /api/generate calls made for this request
    http,            \* the HTTP answer to the client: [status, detail]; status 0 = none yet
    result,          \* the JSON body of a successful non-stream answer
    conn,            \* the upstream response held by `async with client.stream(...)`:
                     \* "none" before it is entered, "open" inside, "released" after
    other            \* a second request in flight: the locals of its suspended task

vars == <<endpoint, request, ollama_payload, pc, status_code, data, out, script, ending,
          lines, error_msg, ollama_response, exc, posts, http, result, conn, other>>

(***************************************************************************)
(* Bounds of the model.                                                    *)
(***************************************************************************)
MaxLines == 3      \* upstream lines read on one stream
MaxCount == 2      \* largest token count the upstream reports
MaxMsgs  == 2      \* messages in a chat request

(***************************************************************************)
(* Values.                                                                 *)
(***************************************************************************)
Absent == "<absent>"          \* dict.get() of a missing key with no default: None

Models        == {"llama3", "qwen"}
Temperatures  == {7, 15}
MaxTokens     == {1000, 16}
TopPs         == {10, 9}
Penalties     == {0, 5}
Roles         == {"system", "user", "assistant", "tool"}
Contents      == {"Hi", "Be terse"}
Prompts       == {"Once", ""}

Message == [role : Roles, content : Contents]

MessageLists == UNION {[1..n -> Message] : n \in 0..MaxMsgs}

\* class ChatCompletionRequest
ChatCompletionRequest ==
    [model : Models, messages : MessageLists, stream : BOOLEAN,
     temperature : Temperatures, max_tokens : MaxTokens, top_p : TopPs,
     frequency_penalty : Penalties, presence_penalty : Penalties]

\* class CompletionRequest
CompletionRequest ==
    [model : Models, prompt : Prompts, stream : BOOLEAN,
     temperature : Temperatures, max_tokens : MaxTokens]

(***************************************************************************)
(* convert_messages_to_ollama_prompt                                       *)
(***************************************************************************)
endswith(s, suffix) ==
    /\ Len(s) >= Len(suffix)
    /\ SubSeq(s, Len(s) - Len(suffix) + 1, Len(s)) = suffix

\* message_segment with the user turn labelled "User: "
message_segment_user_label(message) ==
    IF message.role = "system" THEN "System: " \o message.content \o "\n\n"
    ELSE IF message.role = "user" THEN "User: " \o message.content \o "\n\n"
    ELSE IF message.role = "assistant" THEN "Assistant: " \o message.content \o "\n\n"
    ELSE ""

message_segment(message) ==
    IF message.role = "system" THEN "System: " \o message.content \o "\n\n"
    ELSE IF message.role = "user" THEN "Human: " \o message.content \o "\n\n"
    ELSE IF message.role = "assistant" THEN "Assistant: " \o message.content \o "\n\n"
    ELSE ""

RECURSIVE prompt_of(_)
prompt_of(messages) ==
    IF Len(messages) = 0 THEN ""
    ELSE prompt_of(SubSeq(messages, 1, Len(messages) - 1))
            \o message_segment(messages[Len(messages)])

convert_messages_to_ollama_prompt(messages) ==
    LET prompt == prompt_of(messages)
    IN  IF ~endswith(prompt, "Assistant:") THEN prompt \o "Assistant:" ELSE prompt

(***************************************************************************)
(* The request translation of the two handlers.  A payload is a function   *)
(* from its keys: the keys a payload has are part of its value.           *)
(***************************************************************************)
\* chat_ollama_payload with the penalties forwarded as options
chat_ollama_payload_penalties(req) ==
    [model   |-> req.model,
     prompt  |-> convert_messages_to_ollama_prompt(req.messages),
     stream  |-> req.stream,
     options |-> [temperature       |-> req.temperature,
                  num_predict       |-> req.max_tokens,
                  top_p             |-> req.top_p,
                  frequency_penalty |-> req.frequency_penalty,
                  presence_penalty  |-> req.presence_penalty]]

chat_ollama_payload(req) ==
    [model   |-> req.model,
     prompt  |-> convert_messages_to_ollama_prompt(req.messages),
     stream  |-> req.stream,
     options |-> [temperature |-> req.temperature,
                  num_predict |-> req.max_tokens,
                  top_p       |-> req.top_p]]

completions_ollama_payload(req) ==
    [model   |-> req.model,
     prompt  |-> req.prompt,
     stream  |-> req.stream,
     options |-> [temperature |-> req.temperature,
                  num_predict |-> req.max_tokens]]

NoPayload == [model |-> "", prompt |-> "", stream |-> FALSE, options |-> <<>>]

(***************************************************************************)
(* Python values.                                                          *)
(***************************************************************************)
\* truth value of a str or of None (dict.get of a missing key)
truthy(s) == s # Absent /\ s # ""

\* truth value of the "done" member: true only for JSON true
truthy_done(d) == d = "true"

(***************************************************************************)
(* SSE frames.  A chunk is the JSON object of one `data: {...}` frame.     *)
(***************************************************************************)
\* create_stream_chunk(content, model, finish_reason=None)
create_stream_chunk(content, model, finish_reason) ==
    [object        |-> "chat.completion.chunk",
     model         |-> model,
     delta         |-> IF truthy(content) THEN [content |-> content] ELSE <<>>,
     finish_reason |-> finish_reason]

\* the chunk dict built inline by completions.generate_stream
text_completion_chunk(text, model) ==
    [object        |-> "text_completion",
     model         |-> model,
     text          |-> text,
     finish_reason |-> "null"]

\* the literal frame "data: [DONE]\n\n"
DONE_FRAME == [data |-> "[DONE]"]

(***************************************************************************)
(* What the upstream can send.                                             *)
(***************************************************************************)
StatusCodes == {200, 404}

\* str(e) of the httpx errors the upstream call can raise
Faults == {"All connection attempts failed", ""}

\* bodies of a non-success upstream answer (response.aread().decode())
ErrorBodies == {"model not found", ""}

Fragments == {"Hel", "lo"}

\* One line of the upstream body as aiter_lines() yields it; kind says what
\* json.loads makes of it: "blank" is the empty string, "invalid" is text
\* json.loads rejects, "nonobject" is valid JSON that is no object (7, "x",
\* [1], null), "object" is a JSON object: {"response": ..., "done": ...}
\* with either member possibly missing, or an object with neither member
\* such as {"error": "..."}.
BlankLine     == [kind |-> "blank",     response |-> Absent, done |-> "absent"]
InvalidLine   == [kind |-> "invalid",   response |-> Absent, done |-> "absent"]
NonObjectLine == [kind |-> "nonobject", response |-> Absent, done |-> "absent"]
ObjectLines   ==
    [kind : {"object"}, response : Fragments \cup {"", Absent}, done : {"false", "true"}]
    \cup {[kind |-> "object", response |-> Absent, done |-> "absent"]}
UpstreamLines == {BlankLine, InvalidLine, NonObjectLine} \cup ObjectLines

NoData == BlankLine

\* the lines and bodies followed while a second request is in flight
PairLines ==
    {[kind |-> "object", response |-> "Hel", done |-> "false"],
     [kind |-> "object", response |-> "lo", done |-> "true"]}

PairScripts == UNION {[1..n -> PairLines] : n \in 0..(MaxLines - 1)}

\* every sequence of lines one upstream body can be
Scripts ==
    IF other = <<>> THEN UNION {[1..n -> UpstreamLines] : n \in 0..MaxLines}
    ELSE PairScripts

\* after the last line the body ends, or the read faults
EndOfBody == [kind |-> "eof", msg |-> ""]
Endings   == {EndOfBody} \cup [kind : {"fault"}, msg : Faults]

\* str(e) of the AttributeError raised by data.get on a value that is no dict
AttributeErrorMsg == "'int' object has no attribute 'get'"

\* json.loads(line): the exception it raises, or "ok"
json_loads_raises(line) ==
    IF line.kind = "invalid" THEN "JSONDecodeError" ELSE "ok"

\* data.get(...) on the value json.loads returned
get_raises(line) ==
    IF line.kind = "nonobject" THEN "AttributeError" ELSE "ok"

(***************************************************************************)
(* Exceptions.  An exception is [type, status_code, detail]; detail is the *)
(* message of an exception that is no HTTPException.                       *)
(***************************************************************************)
HTTPException(status, detail) ==
    [type |-> "HTTPException", status_code |-> status, detail |-> detail]

OtherException(type, msg) ==
    [type |-> type, status_code |-> 0, detail |-> msg]

NoException == OtherException("none", "")

\* str(e): starlette's HTTPException.__str__ is "{status_code}: {detail}"
str_exception(e) ==
    IF e.type = "HTTPException"
    THEN ToString(e.status_code) \o ": " \o e.detail
    ELSE e.detail

\* `except Exception as e: raise HTTPException(status_code=500, detail=str(e))`
\* of chat_completions and completions.  HTTPException is an Exception, so
\* the HTTPException raised inside the try block is caught here as well.
handler_except(e) == HTTPException(500, str_exception(e))

\* `except Exception as e: yield create_stream_chunk(f"Error: {str(e)}", ...)`
\* of chat_completions.generate_stream
stream_except(e, model) ==
    create_stream_chunk("Error: " \o str_exception(e), model, "error")

(***************************************************************************)
(* The non-stream upstream answer.                                         *)
(***************************************************************************)
CountAbsent == [t |-> "absent", i |-> 0]
CountNull   == [t |-> "null", i |-> 0]
Count(n)    == [t |-> "int", i |-> n]
Counts      == {CountAbsent, CountNull} \cup {Count(n) : n \in 0..MaxCount}

Texts == {"Hello", Absent}

\* response.json() of a 200 answer: text that is no JSON, JSON that is no
\* object, or an object with the members shown
JsonBodies ==
    [kind : {"invalid", "nonobject"}, response : {Absent},
     prompt_eval_count : {CountAbsent}, eval_count : {CountAbsent}]
    \cup
    [kind : {"object"}, response : Texts,
     prompt_eval_count : Counts, eval_count : Counts]

NoBody == [kind |-> "invalid", response |-> Absent,
           prompt_eval_count |-> CountAbsent, eval_count |-> CountAbsent]

\* what `await client.post(...)` gives: a fault, or a status with its body
UpstreamAnswers ==
    [kind : {"fault"}, fault : Faults, status : {0}, body : {NoBody}]
    \cup
    [kind : {"status"}, fault : {""}, status : StatusCodes \ {200}, body : {NoBody}]
    \cup
    [kind : {"status"}, fault : {""}, status : {200}, body : JsonBodies]

\* ollama_response.get(key, 0) of a count
dict_get(member, default) ==
    IF member.t = "absent" THEN default ELSE member

\* ollama_response.get("response", "")
dict_get_text(member, default) ==
    IF member = Absent THEN default ELSE member

\* the sum in the usage dict raises TypeError when a count is null
usage_raises(body) ==
    LET p == dict_get(body.prompt_eval_count, Count(0))
        c == dict_get(body.eval_count, Count(0))
    IN  p.t # "int" \/ c.t # "int"

\* usage_of with total_tokens taken from the completion count alone
usage_of_completion_only(body) ==
    LET p == dict_get(body.prompt_eval_count, Count(0))
        c == dict_get(body.eval_count, Count(0))
    IN  [prompt_tokens     |-> p.i,
         completion_tokens |-> c.i,
         total_tokens      |-> c.i]

\* the usage dict both handlers build
usage_of(body) ==
    LET p == dict_get(body.prompt_eval_count, Count(0))
        c == dict_get(body.eval_count, Count(0))
    IN  [prompt_tokens     |-> p.i,
         completion_tokens |-> c.i,
         total_tokens      |-> p.i + c.i]

\* create_chat_completion_response(content, model, finish_reason="stop", usage=None)
create_chat_completion_response(content, model, finish_reason, usage) ==
    [object        |-> "chat.completion",
     model         |-> model,
     message       |-> [role |-> "assistant", content |-> content],
     finish_reason |-> finish_reason,
     usage         |-> IF DOMAIN usage # {} THEN usage
                       ELSE [prompt_tokens |-> 0, completion_tokens |-> 0,
                             total_tokens |-> 0]]

\* the dict completions returns
text_completion_response(text, model, usage) ==
    [object        |-> "text_completion",
     model         |-> model,
     text          |-> text,
     finish_reason |-> "stop",
     usage         |-> usage]

\* The exception raised inside the try block of a non-stream handler for
\* an upstream answer, or NoException when the handler returns a response.
post_raises(ans) ==
    IF ans.kind = "fault" THEN OtherException("ConnectError", ans.fault)
    ELSE IF ans.status # 200
         THEN HTTPException(ans.status, "Failed to generate response")
    ELSE IF ans.body.kind = "invalid"
         THEN OtherException("JSONDecodeError", "Expecting value: line 1 column 1 (char 0)")
    ELSE IF ans.body.kind = "nonobject"
         THEN OtherException("AttributeError", AttributeErrorMsg)
    ELSE IF usage_raises(ans.body)
         THEN OtherException("TypeError", "unsupported operand type(s) for +")
    ELSE NoException

\* ollama_response = response.json(): bound once the status is 200 and the
\* body parses, whatever the later statements of the try block do
json_of(ans) ==
    IF ans.kind = "status" /\ ans.status = 200 /\ ans.body.kind # "invalid"
    THEN ans.body ELSE NoBody

\* the answer to the client when exception e leaves the handler
http_of_exception(e) == [status |-> e.status_code, detail |-> e.detail]

(***************************************************************************)
(* Initial states: a validated request has reached its handler.            *)
(***************************************************************************)
NoResult == <<>>

\* no second request in flight
NoTask == <<>>

InitRest ==
    /\ ollama_payload = NoPayload
    /\ pc = "handler"
    /\ status_code = 0
    /\ data = NoData
    /\ out = <<>>
    /\ script = <<>>
    /\ ending = EndOfBody
    /\ lines = <<>>
    /\ error_msg = ""
    /\ ollama_response = NoBody
    /\ exc = NoException
    /\ posts = 0
    /\ http = [status |-> 0, detail |-> ""]
    /\ result = NoResult
    /\ conn = "none"

\* The requests followed through the upstream exchange: both values of
\* stream; the other members do not reach the exchange.
ExchangeChatRequests ==
    {r \in ChatCompletionRequest :
        /\ r.model = "llama3"
        /\ r.messages = <<[role |-> "user", content |-> "Hi"]>>
        /\ r.temperature = 7 /\ r.max_tokens = 1000 /\ r.top_p = 10
        /\ r.frequency_penalty = 0 /\ r.presence_penalty = 0}

ExchangeCompletionRequests ==
    {r \in CompletionRequest :
        r.model = "llama3" /\ r.prompt = "Once" /\ r.temperature = 7 /\ r.max_tokens = 1000}

\* GET /health carries no body; nothing of it is streamed
HealthRequest == [stream |-> FALSE]

Init ==
    /\ endpoint \in {"chat", "completions", "health"}
    /\ request \in IF endpoint = "chat" THEN ExchangeChatRequests
                   ELSE IF endpoint = "completions" THEN ExchangeCompletionRequests
                   ELSE {HealthRequest}
    /\ InitRest
    /\ other = NoTask

(***************************************************************************)
(* chat_completions: entry of the handler up to its first await.           *)
(* With stream set it returns the StreamingResponse: the status line is    *)
(* sent before the generator body runs.                                    *)
(***************************************************************************)
\* chat_completions_entry taking the non-stream branch whatever stream says
chat_completions_entry_no_stream ==
    /\ pc = "handler" /\ endpoint = "chat"
    /\ ollama_payload' = chat_ollama_payload(request)
    /\ http' = http
    /\ pc' = "post"
    /\ UNCHANGED <<endpoint, request, status_code, data, out, script, ending, lines,
                   error_msg, ollama_response, exc, posts, result, conn, other>>

chat_completions_entry ==
    /\ pc = "handler" /\ endpoint = "chat"
    /\ ollama_payload' = chat_ollama_payload(request)
    /\ IF request.stream
       THEN /\ http' = [status |-> 200, detail |-> ""]
            /\ pc' = "stream"
       ELSE /\ http' = http
            /\ pc' = "post"
    /\ UNCHANGED <<endpoint, request, status_code, data, out, script, ending, lines,
                   error_msg, ollama_response, exc, posts, result,
                   conn, other>>

(***************************************************************************)
(* chat_completions.generate_stream.  Its positions: "stream" before the   *)
(* upstream call, "aread" reading the body of a non-200 answer, "lines" at *)
(* the head of the line loop, "yield_content", "yield_stop" and            *)
(* "yield_done" at the three yields of the loop body; and, finished:       *)
(* "returned_error" (return after the status error chunk), "returned_done" *)
(* (return after [DONE]), "ended" (the line loop ran out of lines) and     *)
(* "excepted" (after the yield of the except clause).                      *)
(***************************************************************************)
\* error_text without the "Error: " prefix
error_text_bare(msg) == msg

\* f"Error: {error_msg.decode()}"
error_text(msg) == "Error: " \o msg

\* chat_line_pc with the two tests of the loop body as if/elif, done first
chat_line_pc_elif(line) ==
    IF line.kind = "blank" THEN "lines"
    ELSE IF json_loads_raises(line) = "JSONDecodeError" THEN "lines"
    ELSE IF get_raises(line) = "AttributeError" THEN "excepted"
    ELSE IF truthy_done(line.done) THEN "yield_stop"
    ELSE IF truthy(line.response) THEN "yield_content"
    ELSE "lines"

\* where the body of `async for line in response.aiter_lines()` goes with
\* one line: back to the loop head, to one of its yields, or to the except
\* clause of the generator
chat_line_pc(line) ==
    IF line.kind = "blank" THEN "lines"
    ELSE IF json_loads_raises(line) = "JSONDecodeError" THEN "lines"
    ELSE IF get_raises(line) = "AttributeError" THEN "excepted"
    ELSE IF truthy(line.response) THEN "yield_content"
    ELSE IF truthy_done(line.done) THEN "yield_stop"
    ELSE "lines"

\* chat_after_content_pc with the done test left out
chat_after_content_pc_continue(d) == "lines"

\* after the content chunk of a line was yielded
chat_after_content_pc(d) ==
    IF truthy_done(d.done) THEN "yield_stop" ELSE "lines"

\* chat_stream_open with the call made once more after a first fault
chat_stream_open_retry ==
    /\ pc = "stream" /\ endpoint = "chat"
    /\ posts' = posts + 1
    /\ \/ \E f \in Faults :
            /\ exc' = OtherException("ConnectError", f)
            /\ IF posts = 0
               THEN /\ pc' = "stream"
                    /\ out' = out
               ELSE /\ pc' = "excepted"
                    /\ out' = Append(out, stream_except(exc', request.model))
            /\ UNCHANGED <<status_code, script, ending, conn>>
       \/ \E s \in StatusCodes \ {200} :
            /\ status_code' = s
            /\ pc' = "aread"
            /\ conn' = "open"
            /\ UNCHANGED <<out, exc, script, ending>>
       \/ \E sc \in Scripts, e \in Endings :
            /\ status_code' = 200
            /\ script' = sc
            /\ ending' = e
            /\ pc' = "lines"
            /\ conn' = "open"
            /\ UNCHANGED <<out, exc>>
    /\ UNCHANGED <<endpoint, request, ollama_payload, data, lines, error_msg,
                   ollama_response, http, result, other>>

\* client.stream("POST", .../api/generate): the call is made; it faults, or
\* the upstream answers with a status and, for 200, the body it will send
chat_stream_open ==
    /\ pc = "stream" /\ endpoint = "chat"
    /\ posts' = posts + 1
    /\ \/ \E f \in Faults :
            /\ exc' = OtherException("ConnectError", f)
            /\ out' = Append(out, stream_except(exc', request.model))
            /\ pc' = "excepted"
            /\ UNCHANGED <<status_code, script, ending, conn>>
       \/ \E s \in StatusCodes \ {200} :
            /\ status_code' = s
            /\ pc' = "aread"
            /\ conn' = "open"
            /\ UNCHANGED <<out, exc, script, ending>>
       \/ \E sc \in Scripts, e \in Endings :
            /\ status_code' = 200
            /\ script' = sc
            /\ ending' = e
            /\ pc' = "lines"
            /\ conn' = "open"
            /\ UNCHANGED <<out, exc>>
    /\ UNCHANGED <<endpoint, request, ollama_payload, data, lines, error_msg,
                   ollama_response, http, result, other>>

\* response.status_code != 200: read the body, yield the error chunk, return
chat_stream_error_body ==
    /\ pc = "aread" /\ endpoint = "chat"
    /\ conn' = "released"
    /\ \/ \E body \in ErrorBodies :
            /\ error_msg' = body
            /\ out' = Append(out, create_stream_chunk(error_text(body), request.model, "error"))
            /\ pc' = "returned_error"
            /\ exc' = exc
       \/ \E f \in Faults :
            /\ exc' = OtherException("ReadError", f)
            /\ out' = Append(out, stream_except(exc', request.model))
            /\ pc' = "excepted"
            /\ error_msg' = error_msg
    /\ UNCHANGED <<endpoint, request, ollama_payload, status_code, data, script, ending,
                   lines, ollama_response, posts, http, result, other>>

\* one turn of `async for line in response.aiter_lines()` up to the first
\* yield of its body: a line arrives, the body ends, or the read faults
chat_stream_next_line ==
    /\ pc = "lines" /\ endpoint = "chat"
    /\ IF Len(lines) < Len(script)
       THEN LET line == script[Len(lines) + 1]
            IN  /\ lines' = Append(lines, line)
                /\ pc' = chat_line_pc(line)
                /\ data' = IF line.kind = "object" THEN line ELSE data
                /\ IF chat_line_pc(line) = "excepted"
                   THEN /\ exc' = OtherException("AttributeError", AttributeErrorMsg)
                        /\ out' = Append(out, stream_except(exc', request.model))
                   ELSE UNCHANGED <<exc, out>>
       ELSE IF ending.kind = "eof"
       THEN /\ pc' = "ended"
            /\ UNCHANGED <<lines, data, exc, out>>
       ELSE /\ exc' = OtherException("ReadError", ending.msg)
            /\ out' = Append(out, stream_except(exc', request.model))
            /\ pc' = "excepted"
            /\ UNCHANGED <<lines, data>>
    /\ conn' = IF pc' \in {"ended", "excepted"} THEN "released" ELSE conn
    /\ UNCHANGED <<endpoint, request, ollama_payload, status_code, script, ending,
                   error_msg, ollama_response, posts, http, result, other>>

\* chat_stream_yield_content with `data` kept at module level, where the
\* other request's generator overwrites it
chat_stream_yield_content_shared ==
    /\ pc = "yield_content" /\ endpoint = "chat"
    /\ LET d == IF other # <<>> /\ other.data # NoData THEN other.data ELSE data
       IN  /\ out' = Append(out, create_stream_chunk(d.response, request.model, "null"))
           /\ pc' = chat_after_content_pc(d)
    /\ UNCHANGED <<endpoint, request, ollama_payload, status_code, data, script, ending,
                   lines, error_msg, ollama_response, exc, posts, http, result,
                   conn, other>>

\* yield create_stream_chunk(data["response"], request.model)
chat_stream_yield_content ==
    /\ pc = "yield_content" /\ endpoint = "chat"
    /\ out' = Append(out, create_stream_chunk(data.response, request.model, "null"))
    /\ pc' = chat_after_content_pc(data)
    /\ UNCHANGED <<endpoint, request, ollama_payload, status_code, data, script, ending,
                   lines, error_msg, ollama_response, exc, posts, http, result,
                   conn, other>>

\* yield create_stream_chunk("", request.model, "stop")
chat_stream_yield_stop ==
    /\ pc = "yield_stop" /\ endpoint = "chat"
    /\ out' = Append(out, create_stream_chunk("", request.model, "stop"))
    /\ pc' = "yield_done"
    /\ UNCHANGED <<endpoint, request, ollama_payload, status_code, data, script, ending,
                   lines, error_msg, ollama_response, exc, posts, http, result,
                   conn, other>>

\* chat_stream_yield_done without the return: the line loop goes on
chat_stream_yield_done_no_return ==
    /\ pc = "yield_done" /\ endpoint = "chat"
    /\ out' = Append(out, DONE_FRAME)
    /\ pc' = "lines"
    /\ UNCHANGED <<endpoint, request, ollama_payload, status_code, data, script, ending,
                   lines, error_msg, ollama_response, exc, posts, http, result,
                   conn, other>>

\* yield "data: [DONE]\n\n"; return
chat_stream_yield_done ==
    /\ pc = "yield_done" /\ endpoint = "chat"
    /\ conn' = "released"
    /\ out' = Append(out, DONE_FRAME)
    /\ pc' = "returned_done"
    /\ UNCHANGED <<endpoint, request, ollama_payload, status_code, data, script, ending,
                   lines, error_msg, ollama_response, exc, posts, http, result,
                   other>>

\* non-stream branch of chat_completions: the upstream call and the answer
chat_completions_post ==
    /\ pc = "post" /\ endpoint = "chat"
    /\ posts' = posts + 1
    /\ \E ans \in UpstreamAnswers :
         /\ status_code' = ans.status
         /\ exc' = post_raises(ans)
         /\ ollama_response' = json_of(ans)
         /\ IF post_raises(ans) # NoException
            THEN /\ http' = http_of_exception(handler_except(post_raises(ans)))
                 /\ UNCHANGED result
            ELSE /\ http' = [status |-> 200, detail |-> ""]
                 /\ result' = create_chat_completion_response(
                                  dict_get_text(ans.body.response, ""),
                                  request.model, "stop", usage_of(ans.body))
    /\ pc' = "done"
    /\ UNCHANGED <<endpoint, request, ollama_payload, data, out, script, ending, lines,
                   error_msg, conn, other>>

(***************************************************************************)
(* completions: entry of the handler up to its first await.                *)
(***************************************************************************)
completions_entry ==
    /\ pc = "handler" /\ endpoint = "completions"
    /\ ollama_payload' = completions_ollama_payload(request)
    /\ IF request.stream
       THEN /\ http' = [status |-> 200, detail |-> ""]
            /\ pc' = "stream"
       ELSE /\ http' = http
            /\ pc' = "post"
    /\ UNCHANGED <<endpoint, request, status_code, data, out, script, ending, lines,
                   error_msg, ollama_response, exc, posts, result,
                   conn, other>>

(***************************************************************************)
(* completions.generate_stream.  It has no try/except around the upstream  *)
(* call and no status check: an exception other than JSONDecodeError       *)
(* leaves the generator (pc "raised") and the body ends there, with the    *)
(* status line already sent.  The lines of a non-200 answer are read like  *)
(* those of a 200 answer.                                                  *)
(***************************************************************************)
completions_line_pc(line) ==
    IF line.kind = "blank" THEN "lines"
    ELSE IF json_loads_raises(line) = "JSONDecodeError" THEN "lines"
    ELSE IF get_raises(line) = "AttributeError" THEN "raised"
    ELSE IF truthy(line.response) THEN "yield_content"
    ELSE IF truthy_done(line.done) THEN "yield_done"
    ELSE "lines"

completions_after_content_pc(d) ==
    IF truthy_done(d.done) THEN "yield_done" ELSE "lines"

completions_stream_open ==
    /\ pc = "stream" /\ endpoint = "completions"
    /\ posts' = posts + 1
    /\ \/ \E f \in Faults :
            /\ exc' = OtherException("ConnectError", f)
            /\ pc' = "raised"
            /\ UNCHANGED <<status_code, script, ending, conn>>
       \/ \E s \in StatusCodes, sc \in Scripts, e \in Endings :
            /\ status_code' = s
            /\ script' = sc
            /\ ending' = e
            /\ pc' = "lines"
            /\ conn' = "open"
            /\ exc' = exc
    /\ UNCHANGED <<endpoint, request, ollama_payload, data, out, lines, error_msg,
                   ollama_response, http, result, other>>

completions_stream_next_line ==
    /\ pc = "lines" /\ endpoint = "completions"
    /\ IF Len(lines) < Len(script)
       THEN LET line == script[Len(lines) + 1]
            IN  /\ lines' = Append(lines, line)
                /\ pc' = completions_line_pc(line)
                /\ data' = IF line.kind = "object" THEN line ELSE data
                /\ exc' = IF completions_line_pc(line) = "raised"
                          THEN OtherException("AttributeError", AttributeErrorMsg)
                          ELSE exc
       ELSE IF ending.kind = "eof"
       THEN /\ pc' = "ended"
            /\ UNCHANGED <<lines, data, exc>>
       ELSE /\ exc' = OtherException("ReadError", ending.msg)
            /\ pc' = "raised"
            /\ UNCHANGED <<lines, data>>
    /\ conn' = IF pc' \in {"ended", "raised"} THEN "released" ELSE conn
    /\ UNCHANGED <<endpoint, request, ollama_payload, status_code, out, script, ending,
                   error_msg, ollama_response, posts, http, result, other>>

\* yield f"data: {json.dumps(chunk)}\n\n"
completions_stream_yield_content ==
    /\ pc = "yield_content" /\ endpoint = "completions"
    /\ out' = Append(out, text_completion_chunk(data.response, request.model))
    /\ pc' = completions_after_content_pc(data)
    /\ UNCHANGED <<endpoint, request, ollama_payload, status_code, data, script, ending,
                   lines, error_msg, ollama_response, exc, posts, http, result,
                   conn, other>>

\* yield "data: [DONE]\n\n"; return
completions_stream_yield_done ==
    /\ pc = "yield_done" /\ endpoint = "completions"
    /\ conn' = "released"
    /\ out' = Append(out, DONE_FRAME)
    /\ pc' = "returned_done"
    /\ UNCHANGED <<endpoint, request, ollama_payload, status_code, data, script, ending,
                   lines, error_msg, ollama_response, exc, posts, http, result,
                   other>>

\* non-stream branch of completions: the upstream call and the answer
completions_post ==
    /\ pc = "post" /\ endpoint = "completions"
    /\ posts' = posts + 1
    /\ \E ans \in UpstreamAnswers :
         /\ status_code' = ans.status
         /\ exc' = post_raises(ans)
         /\ ollama_response' = json_of(ans)
         /\ IF post_raises(ans) # NoException
            THEN /\ http' = http_of_exception(handler_except(post_raises(ans)))
                 /\ UNCHANGED result
            ELSE /\ http' = [status |-> 200, detail |-> ""]
                 /\ result' = text_completion_response(
                                  dict_get_text(ans.body.response, ""),
                                  request.model, usage_of(ans.body))
    /\ pc' = "done"
    /\ UNCHANGED <<endpoint, request, ollama_payload, data, out, script, ending, lines,
                   error_msg, conn, other>>

(***************************************************************************)
(* health_check: the probe GET /api/version and the value returned.  The   *)
(* function has a return for status 200 and one in its except clause; with *)
(* any other status it runs off its end and returns None, which is sent    *)
(* as the JSON body null.                                                  *)
(***************************************************************************)
JsonNull == [json |-> "null"]

health_result(ans) ==
    IF ans.kind = "fault"
    THEN [status |-> "unhealthy", ollama |-> "disconnected", error |-> ans.fault]
    ELSE IF ans.status = 200
    THEN [status |-> "healthy", ollama |-> "connected", api |-> "openai-compatible"]
    ELSE JsonNull

\* what `await client.get(.../api/version)` gives
ProbeAnswers ==
    [kind : {"fault"}, fault : Faults, status : {0}]
    \cup [kind : {"status"}, fault : {""}, status : StatusCodes]

health_check ==
    /\ pc = "handler" /\ endpoint = "health"
    /\ \E ans \in ProbeAnswers :
         /\ status_code' = ans.status
         /\ exc' = IF ans.kind = "fault" THEN OtherException("ConnectError", ans.fault)
                                         ELSE exc
         /\ result' = health_result(ans)
    /\ http' = [status |-> 200, detail |-> ""]
    /\ pc' = "health_returned"
    /\ UNCHANGED <<endpoint, request, ollama_payload, data, out, script, ending, lines,
                   error_msg, ollama_response, posts, conn, other>>

(***************************************************************************)
(* The client goes away while the generator of a stream is suspended, at   *)
(* an await of the upstream call or at a yield: the server cancels the     *)
(* task, and CancelledError (or GeneratorExit, at a yield) is raised at    *)
(* that point in the generator.  Neither is an Exception, so the except    *)
(* clause of chat_completions.generate_stream does not run; the exception  *)
(* leaves the `async with` blocks, which close the upstream response.      *)
(***************************************************************************)
Suspended == {"stream", "aread", "lines", "yield_content", "yield_stop", "yield_done"}

\* client_disconnect with the cancellation caught by `except Exception`
client_disconnect_caught ==
    /\ pc \in Suspended /\ request.stream
    /\ exc' = OtherException("CancelledError", "")
    /\ conn' = IF conn = "open" THEN "released" ELSE conn
    /\ IF endpoint = "chat"
       THEN /\ out' = Append(out, stream_except(exc', request.model))
            /\ pc' = "excepted"
       ELSE /\ out' = out
            /\ pc' = "raised"
    /\ UNCHANGED <<endpoint, request, ollama_payload, status_code, data, script, ending,
                   lines, error_msg, ollama_response, posts, http, result, other>>

client_disconnect ==
    /\ pc \in Suspended /\ request.stream
    /\ exc' = OtherException("CancelledError", "")
    /\ conn' = IF conn = "open" THEN "released" ELSE conn
    /\ pc' = "cancelled"
    /\ UNCHANGED <<endpoint, request, ollama_payload, status_code, data, out, script,
                   ending, lines, error_msg, ollama_response, posts, http, result, other>>

(***************************************************************************)
(* Specifications.                                                         *)
(***************************************************************************)
Next ==
    \/ chat_completions_entry
    \/ chat_stream_open
    \/ chat_stream_error_body
    \/ chat_stream_next_line
    \/ chat_stream_yield_content
    \/ chat_stream_yield_stop
    \/ chat_stream_yield_done
    \/ chat_completions_post
    \/ completions_entry
    \/ completions_stream_open
    \/ completions_stream_next_line
    \/ completions_stream_yield_content
    \/ completions_stream_yield_done
    \/ completions_post
    \/ health_check

Spec == Init /\ [][Next]_vars

\* The same requests with a client that may go away during a stream.
NextDisconnect ==
    \/ Next
    \/ client_disconnect

SpecDisconnect == Init /\ [][NextDisconnect]_vars

(***************************************************************************)
(* Two requests in flight.  Each request is one task on the event loop;    *)
(* the variables above are the locals of the task that is running, `other` *)
(* holds those of the task that is suspended.  The handlers keep nothing   *)
(* at module level but the constants OLLAMA_BASE_URL and TIMEOUT, and each *)
(* opens its own httpx.AsyncClient, so a step of the running task is a     *)
(* step of Next on its own locals.  Switch is the event loop resuming the  *)
(* other task; a task that is never resumed is one whose upstream or       *)
(* client is stalled.                                                      *)
(***************************************************************************)
Task ==
    [endpoint |-> endpoint, request |-> request, ollama_payload |-> ollama_payload,
     pc |-> pc, status_code |-> status_code, data |-> data, out |-> out,
     script |-> script, ending |-> ending, lines |-> lines, error_msg |-> error_msg,
     ollama_response |-> ollama_response, exc |-> exc, posts |-> posts, http |-> http,
     result |-> result, conn |-> conn]

Switch ==
    /\ other # NoTask
    /\ endpoint' = other.endpoint
    /\ request' = other.request
    /\ ollama_payload' = other.ollama_payload
    /\ pc' = other.pc
    /\ status_code' = other.status_code
    /\ data' = other.data
    /\ out' = other.out
    /\ script' = other.script
    /\ ending' = other.ending
    /\ lines' = other.lines
    /\ error_msg' = other.error_msg
    /\ ollama_response' = other.ollama_response
    /\ exc' = other.exc
    /\ posts' = other.posts
    /\ http' = other.http
    /\ result' = other.result
    /\ conn' = other.conn
    /\ other' = Task

\* The upstream answers followed when two requests are in flight: the bodies
\* of PairScripts, one fault message, fewer JSON answers.
PairFault == "All connection attempts failed"

PairUpstream ==
    /\ script \in PairScripts
    /\ ending.kind = "fault" => ending.msg = PairFault
    /\ exc.type \in {"ConnectError", "ReadError"} => exc.detail = PairFault
    /\ error_msg \in {"", "model not found"}
    /\ ollama_response.kind = "object" =>
           /\ ollama_response.prompt_eval_count \in {CountAbsent, CountNull}
           /\ ollama_response.eval_count = Count(MaxCount)

\* a request that has reached its handler, nothing done yet
InitialTasks ==
    {[endpoint |-> e, request |-> r, ollama_payload |-> NoPayload,
      pc |-> "handler", status_code |-> 0, data |-> NoData, out |-> <<>>,
      script |-> <<>>, ending |-> EndOfBody, lines |-> <<>>, error_msg |-> "",
      ollama_response |-> NoBody, exc |-> NoException, posts |-> 0,
      http |-> [status |-> 0, detail |-> ""], result |-> NoResult, conn |-> "none"] :
        <<e, r>> \in ({"chat"} \X ExchangeChatRequests)
                     \cup ({"completions"} \X ExchangeCompletionRequests)
                     \cup ({"health"} \X {HealthRequest})}

InitPair ==
    /\ endpoint \in {"chat", "completions", "health"}
    /\ request \in IF endpoint = "chat" THEN ExchangeChatRequests
                   ELSE IF endpoint = "completions" THEN ExchangeCompletionRequests
                   ELSE {HealthRequest}
    /\ InitRest
    /\ other \in InitialTasks

\* one step of the running task
TaskStep == Next /\ PairUpstream'

NextPair ==
    \/ TaskStep
    \/ Switch

SpecPair == InitPair /\ [][NextPair]_vars

\* The request translation alone, over every request of the bounded sets.
InitTranslate ==
    /\ endpoint \in {"chat", "completions"}
    /\ request \in IF endpoint = "chat" THEN ChatCompletionRequest
                                         ELSE CompletionRequest
    /\ InitRest
    /\ other = NoTask

NextTranslate ==
    \/ chat_completions_entry
    \/ completions_entry

SpecTranslate == InitTranslate /\ [][NextTranslate]_vars

(***************************************************************************)
(* Reading the output of a stream.                                         *)
(***************************************************************************)
IsChunk(f) == "finish_reason" \in DOMAIN f

FramesWith(o, reason) ==
    {i \in 1..Len(o) : IsChunk(o[i]) /\ o[i].finish_reason = reason}

StopCount(o)  == Cardinality(FramesWith(o, "stop"))
ErrorCount(o) == Cardinality(FramesWith(o, "error"))
DoneCount(o)  == Cardinality({i \in 1..Len(o) : o[i] = DONE_FRAME})

\* the text a content chunk carries
ChunkText(f) == IF f.object = "text_completion" THEN f.text ELSE f.delta.content

IsContentChunk(f) == IsChunk(f) /\ f.finish_reason = "null"

\* the texts of the content chunks of o, in order
RECURSIVE ContentOf(_)
ContentOf(o) ==
    IF Len(o) = 0 THEN <<>>
    ELSE LET front == ContentOf(SubSeq(o, 1, Len(o) - 1))
             last  == o[Len(o)]
         IN  IF IsContentChunk(last) THEN Append(front, ChunkText(last)) ELSE front

\* the text fragments of the upstream events among ls, in order
RECURSIVE FragmentsOf(_)
FragmentsOf(ls) ==
    IF Len(ls) = 0 THEN <<>>
    ELSE LET front == FragmentsOf(SubSeq(ls, 1, Len(ls) - 1))
             last  == ls[Len(ls)]
         IN  IF last.kind = "object" /\ truthy(last.response)
             THEN Append(front, last.response) ELSE front

\* the generator has finished: nothing more is sent on this response
StreamFinished ==
    pc \in {"returned_error", "returned_done", "ended", "excepted", "raised"}

\* the state of the stream translator, read off the generator's position
translator_state ==
    IF pc \in {"returned_error", "excepted"} THEN "ERROR_SENT"
    ELSE IF pc = "returned_done" THEN "DONE"
    ELSE "STREAMING"

IsDoneEvent(line) == line.kind = "object" /\ line.done = "true"

IsMalformed(line) == line.kind \in {"invalid", "nonobject"}

(***************************************************************************)
(* C1: a finished chat stream shows the client exactly one terminal        *)
(* signal, whatever the upstream did: one finish_reason "stop" chunk with  *)
(* its [DONE] frame, or one finish_reason "error" chunk.                   *)
(***************************************************************************)
C1_ExactlyOneTerminalSignal ==
    (endpoint = "chat" /\ request.stream /\ StreamFinished) =>
        \/ StopCount(out) = 1 /\ DoneCount(out) = 1 /\ ErrorCount(out) = 0
        \/ ErrorCount(out) = 1 /\ StopCount(out) = 0 /\ DoneCount(out) = 0

(***************************************************************************)
(* C2: when the upstream answers 200 and sends, without fault, lines of    *)
(* which the last is a done:true event, the finished chat stream ends with *)
(* the one stop chunk (empty delta) followed by the one [DONE] frame.      *)
(***************************************************************************)
C2_DoneEndsWithStopThenDone ==
    (/\ endpoint = "chat" /\ request.stream /\ StreamFinished
     /\ status_code = 200 /\ ending = EndOfBody
     /\ Len(script) > 0 /\ IsDoneEvent(script[Len(script)]))
    => /\ Len(out) >= 2
       /\ out[Len(out)] = DONE_FRAME
       /\ out[Len(out) - 1] = [object |-> "chat.completion.chunk", model |-> request.model,
                               delta |-> <<>>, finish_reason |-> "stop"]
       /\ StopCount(out) = 1
       /\ DoneCount(out) = 1

(***************************************************************************)
(* C3: a step of the chat stream that reads a non-blank line which is no   *)
(* JSON object (invalid JSON, or JSON that is no object) emits no frame    *)
(* and goes back to the head of the line loop, the state STREAMING.        *)
(***************************************************************************)
C3_MalformedLineDiscarded ==
    [][(/\ endpoint = "chat" /\ pc = "lines"
        /\ Len(lines) < Len(script)
        /\ IsMalformed(script[Len(lines) + 1]))
       => (out' = out /\ pc' = "lines")]_vars

(***************************************************************************)
(* C4: a non-stream request whose upstream call answered with a status     *)
(* other than 200 is answered with that same status and the generic detail.*)
(***************************************************************************)
C4_UpstreamStatusSurfaced ==
    (~request.stream /\ pc = "done" /\ status_code \notin {0, 200}) =>
        /\ http.status = status_code
        /\ http.detail = "Failed to generate response"

(***************************************************************************)
(* C5: a non-stream request whose upstream call could not connect is       *)
(* answered with HTTP 503.                                                 *)
(***************************************************************************)
C5_UnreachableIs503 ==
    (~request.stream /\ pc = "done" /\ exc.type = "ConnectError") =>
        http.status = 503

(***************************************************************************)
(* C6: on both streaming endpoints a connection fault (at the call or at a *)
(* read) leaves a body whose last frame is the one finish_reason "error"   *)
(* chunk, and no [DONE] frame.                                             *)
(***************************************************************************)
C6_FaultGivesOneErrorChunk ==
    (request.stream /\ StreamFinished /\ exc.type \in {"ConnectError", "ReadError"}) =>
        /\ Len(out) >= 1
        /\ IsChunk(out[Len(out)])
        /\ out[Len(out)].finish_reason = "error"
        /\ ErrorCount(out) = 1
        /\ DoneCount(out) = 0

(***************************************************************************)
(* C7: when the upstream answers the chat streaming call with a status     *)
(* other than 200, no line is read and no [DONE] frame is sent; once the   *)
(* body is read the output is the single chunk with delta text             *)
(* "Error: " + body and finish_reason "error", and the state is            *)
(* ERROR_SENT.  (If reading the body faults, the single chunk carries the  *)
(* fault's message instead.)                                               *)
(***************************************************************************)
C7_StatusErrorChunk ==
    (endpoint = "chat" /\ request.stream /\ status_code \notin {0, 200}) =>
        /\ lines = <<>>
        /\ DoneCount(out) = 0
        /\ \/ pc = "aread" /\ out = <<>>
           \/ /\ pc = "returned_error"
              /\ exc = NoException
              /\ translator_state = "ERROR_SENT"
              /\ out = <<[object |-> "chat.completion.chunk", model |-> request.model,
                          delta |-> [content |-> "Error: " \o error_msg],
                          finish_reason |-> "error"]>>
           \/ /\ pc = "excepted"
              /\ exc.type = "ReadError"
              /\ translator_state = "ERROR_SENT"
              /\ out = <<[object |-> "chat.completion.chunk", model |-> request.model,
                          delta |-> [content |-> "Error: " \o exc.detail],
                          finish_reason |-> "error"]>>

C7_Witness ==
    /\ endpoint = "chat" /\ request.stream /\ status_code = 404
    /\ pc = "returned_error" /\ error_msg = "model not found"
    /\ Len(out) = 1

(***************************************************************************)
(* C8: on a stream of either endpoint the content chunks sent are the text *)
(* fragments of the upstream events read, in the order read, each once and *)
(* unchanged; and the chunk of an event is sent before the next line is    *)
(* read: only at the yield of a fragment is that one fragment not yet out. *)
(***************************************************************************)
C8_OrderedUnbuffered ==
    request.stream =>
        LET read == FragmentsOf(lines)
        IN  IF pc = "yield_content"
            THEN /\ Len(read) >= 1
                 /\ ContentOf(out) = SubSeq(read, 1, Len(read) - 1)
            ELSE ContentOf(out) = read

C8_Witness ==
    /\ request.stream /\ endpoint = "chat" /\ pc = "returned_done"
    /\ ContentOf(out) = <<"lo", "Hel", "lo">>

(***************************************************************************)
(* C9: every successful non-stream answer has total_tokens equal to        *)
(* prompt_tokens + completion_tokens, and a count the upstream gave as an  *)
(* integer is passed on as it is.                                          *)
(***************************************************************************)
C9_UsageTotal ==
    (~request.stream /\ pc = "done" /\ http.status = 200) =>
        /\ result.usage.total_tokens
             = result.usage.prompt_tokens + result.usage.completion_tokens
        /\ ollama_response.prompt_eval_count.t = "int"
             => result.usage.prompt_tokens = ollama_response.prompt_eval_count.i
        /\ ollama_response.eval_count.t = "int"
             => result.usage.completion_tokens = ollama_response.eval_count.i

C9_Witness ==
    /\ ~request.stream /\ pc = "done" /\ http.status = 200
    /\ ollama_response.prompt_eval_count = Count(1)
    /\ ollama_response.eval_count = Count(2)
    /\ result.usage.total_tokens = 3

(***************************************************************************)
(* C10: the payload built from a request copies its members: a chat        *)
(* payload has model, stream and the options temperature, num_predict      *)
(* (max_tokens) and top_p and nothing else (no penalty); a completion      *)
(* payload has the request's prompt verbatim and the options temperature   *)
(* and num_predict only.                                                   *)
(***************************************************************************)
C10_RequestTranslation ==
    pc # "handler" =>
        /\ DOMAIN ollama_payload = {"model", "prompt", "stream", "options"}
        /\ ollama_payload.model = request.model
        /\ ollama_payload.stream = request.stream
        /\ ollama_payload.options.temperature = request.temperature
        /\ ollama_payload.options.num_predict = request.max_tokens
        /\ IF endpoint = "chat"
           THEN /\ DOMAIN ollama_payload.options = {"temperature", "num_predict", "top_p"}
                /\ ollama_payload.options.top_p = request.top_p
           ELSE /\ DOMAIN ollama_payload.options = {"temperature", "num_predict"}
                /\ ollama_payload.prompt = request.prompt

C10_Witness ==
    /\ pc # "handler" /\ endpoint = "chat"
    /\ request.frequency_penalty = 5 /\ request.presence_penalty = 5
    /\ request.max_tokens = 16 /\ request.temperature = 15 /\ request.top_p = 9
    /\ ollama_payload.options.num_predict = 16

(***************************************************************************)
(* C11: the prompt of a chat payload is the in-order concatenation of one  *)
(* segment per message with a recognised role ("System: ", "Human: ",      *)
(* "Assistant: " + content + two newlines), other roles giving nothing,    *)
(* with "Assistant:" appended unless the text already ends with it; it     *)
(* always ends with "Assistant:" and is "Assistant:" for no messages.      *)
(***************************************************************************)
RoleLabel(role) ==
    CASE role = "system"    -> "System: "
      [] role = "user"      -> "Human: "
      [] role = "assistant" -> "Assistant: "
      [] OTHER              -> Absent

RECURSIVE SegmentsInOrder(_)
SegmentsInOrder(ms) ==
    IF ms = <<>> THEN ""
    ELSE (IF RoleLabel(Head(ms).role) = Absent THEN ""
          ELSE RoleLabel(Head(ms).role) \o Head(ms).content \o "\n\n")
         \o SegmentsInOrder(Tail(ms))

EndsWithAssistant(text) ==
    Len(text) >= 10 /\ SubSeq(text, Len(text) - 9, Len(text)) = "Assistant:"

C11_PromptBuilder ==
    (endpoint = "chat" /\ pc # "handler") =>
        LET text   == SegmentsInOrder(request.messages)
            prompt == ollama_payload.prompt
        IN  /\ prompt = IF EndsWithAssistant(text) THEN text ELSE text \o "Assistant:"
            /\ EndsWithAssistant(prompt)
            /\ request.messages = <<>> => prompt = "Assistant:"
            /\ request.messages = <<[role |-> "system", content |-> "Be terse"],
                                    [role |-> "user", content |-> "Hi"]>>
                 => prompt = "System: Be terse\n\nHuman: Hi\n\nAssistant:"

C11_Witness ==
    /\ endpoint = "chat" /\ pc # "handler"
    /\ request.messages = <<[role |-> "tool", content |-> "Be terse"],
                            [role |-> "user", content |-> "Hi"]>>
    /\ ollama_payload.prompt = "Human: Hi\n\nAssistant:"

(***************************************************************************)
(* C12: a finished completions stream signals its end as the chat stream   *)
(* does for the same upstream behaviour: after a done:true event the       *)
(* output ends with one finish_reason "stop" chunk and the [DONE] frame;   *)
(* after a status other than 200 or a fault it is closed by one            *)
(* finish_reason "error" chunk, with no line of a non-200 body translated; *)
(* and the content chunks are the fragments of the events read, in order.  *)
(***************************************************************************)
C12_CompletionsStreamLikeChat ==
    (endpoint = "completions" /\ request.stream /\ StreamFinished) =>
        /\ ContentOf(out) = FragmentsOf(lines)
        /\ (status_code = 200 /\ Len(lines) > 0 /\ IsDoneEvent(lines[Len(lines)]))
             => /\ StopCount(out) = 1 /\ DoneCount(out) = 1 /\ ErrorCount(out) = 0
                /\ out[Len(out)] = DONE_FRAME
        /\ (status_code \notin {0, 200} \/ exc.type \in {"ConnectError", "ReadError"})
             => /\ ErrorCount(out) = 1 /\ StopCount(out) = 0 /\ DoneCount(out) = 0
                /\ IsChunk(out[Len(out)]) /\ out[Len(out)].finish_reason = "error"
        /\ status_code \notin {0, 200} => lines = <<>>

(***************************************************************************)
(* C13: whatever the version probe gives (200, another status, a fault),   *)
(* GET /health answers with an object that has a status member and an      *)
(* ollama member equal to "connected" or "disconnected".                   *)
(***************************************************************************)
C13_HealthAnswerShape ==
    (endpoint = "health" /\ pc = "health_returned") =>
        /\ {"status", "ollama"} \subseteq DOMAIN result
        /\ result.ollama \in {"connected", "disconnected"}

(***************************************************************************)
(* C14: a chat or completion request builds its one payload before the     *)
(* call and makes at most one POST /api/generate; a request whose upstream *)
(* call failed (fault, status other than 200, fault in mid-stream) has     *)
(* made exactly one.                                                       *)
(***************************************************************************)
C14_SingleUpstreamAttempt ==
    endpoint \in {"chat", "completions"} =>
        /\ posts <= 1
        /\ posts = 1 => ollama_payload # NoPayload
        /\ pc # "handler" =>
             /\ ollama_payload.model = request.model
             /\ ollama_payload.stream = request.stream
        /\ (exc # NoException \/ status_code \notin {0, 200}) => posts = 1

C14_Witness ==
    /\ endpoint = "chat" /\ request.stream /\ pc = "excepted"
    /\ exc.type = "ConnectError" /\ posts = 1

(***************************************************************************)
(* C15: in the chat stream a chunk with a finish_reason ("stop", "error")  *)
(* is final: every chunk before it has finish_reason null, nothing follows *)
(* an error chunk and only the one [DONE] frame follows a stop chunk; and  *)
(* once such a chunk is out no further upstream line is read.              *)
(***************************************************************************)
HasTerminalChunk(o) == StopCount(o) + ErrorCount(o) > 0

TerminalChunkIsFinal(o) ==
    \A i \in 1..Len(o) :
        (IsChunk(o[i]) /\ o[i].finish_reason # "null") =>
            /\ \A j \in 1..(i - 1) : IsContentChunk(o[j])
            /\ \/ i = Len(o)
               \/ /\ i = Len(o) - 1
                  /\ o[i].finish_reason = "stop"
                  /\ o[Len(o)] = DONE_FRAME

NothingAfterTerminalChunk ==
    (endpoint = "chat" /\ request.stream /\ HasTerminalChunk(out)) =>
        /\ lines' = lines
        /\ \/ out' = out
           \/ /\ IsChunk(out[Len(out)])
              /\ out[Len(out)].finish_reason = "stop"
              /\ out' = Append(out, DONE_FRAME)

C15_TerminalAbsorbing ==
    /\ []((endpoint = "chat" /\ request.stream) => TerminalChunkIsFinal(out))
    /\ [][NothingAfterTerminalChunk]_vars

C15_Witness ==
    /\ endpoint = "chat" /\ request.stream /\ pc = "returned_done"
    /\ Len(lines) < Len(script)
    /\ Len(out) = 3

(***************************************************************************)
(* C16: a non-stream request whose upstream answer is a 200 with a JSON    *)
(* object gets a success, whatever the object says of its two counts: an   *)
(* absent or null count is reported as 0 and total_tokens is the sum.      *)
(***************************************************************************)
CountOrZero(member) == IF member.t = "int" THEN member.i ELSE 0

C16_CountsDefaultToZero ==
    (/\ endpoint \in {"chat", "completions"}
     /\ ~request.stream
     /\ pc = "done"
     /\ status_code = 200
     /\ ollama_response.kind = "object")
    => /\ http.status = 200
       /\ result.usage.prompt_tokens = CountOrZero(ollama_response.prompt_eval_count)
       /\ result.usage.completion_tokens = CountOrZero(ollama_response.eval_count)
       /\ result.usage.total_tokens = CountOrZero(ollama_response.prompt_eval_count)
                                      + CountOrZero(ollama_response.eval_count)

(***************************************************************************)
(* C18: when the client disconnects during a stream, that step emits no    *)
(* chunk, reads no upstream line and makes no upstream call; afterwards    *)
(* the upstream response is not held open and the stream's task takes no   *)
(* further step: no line is read, no error chunk and no [DONE] is emitted, *)
(* no call is made again.                                                  *)
(***************************************************************************)
Disconnected == exc.type = "CancelledError"

C18_DisconnectStopsStream ==
    /\ [](Disconnected => (conn # "open" /\ ~ENABLED NextDisconnect))
    /\ [][Disconnected' => (out' = out /\ lines' = lines /\ posts' = posts)]_vars

C18_Witness ==
    /\ Disconnected
    /\ endpoint = "chat"
    /\ conn = "released"
    /\ Len(out) = 1
    /\ Len(lines) < Len(script)

(***************************************************************************)
(* C19: in the chat stream the frames emitted for one upstream line are a  *)
(* function of that line alone.  FramesFor is that function, case by case; *)
(* whenever the generator is between two lines or has ended, its output is *)
(* the frames of the lines read so far, one line after the other, and the  *)
(* translator has left STREAMING exactly when a line with done true was    *)
(* read.  Lines that are not JSON objects, other than blank ones, are not  *)
(* part of this claim.                                                     *)
(***************************************************************************)
ContentFrame(text, model) ==
    [object |-> "chat.completion.chunk", model |-> model,
     delta |-> [content |-> text], finish_reason |-> "null"]

StopFrame(model) ==
    [object |-> "chat.completion.chunk", model |-> model,
     delta |-> <<>>, finish_reason |-> "stop"]

HasText(line) == line.response # Absent /\ line.response # ""

FramesFor(line, model) ==
    IF line.kind = "blank" THEN <<>>
    ELSE IF HasText(line) /\ ~IsDoneEvent(line)
         THEN <<ContentFrame(line.response, model)>>
    ELSE IF ~HasText(line) /\ ~IsDoneEvent(line)
         THEN <<>>
    ELSE IF ~HasText(line)
         THEN <<StopFrame(model), DONE_FRAME>>
    ELSE <<ContentFrame(line.response, model), StopFrame(model), DONE_FRAME>>

RECURSIVE FramesOfLines(_, _)
FramesOfLines(ls, model) ==
    IF Len(ls) = 0 THEN <<>>
    ELSE FramesOfLines(SubSeq(ls, 1, Len(ls) - 1), model) \o FramesFor(ls[Len(ls)], model)

C19_FramesPerLine ==
    (/\ endpoint = "chat" /\ request.stream
     /\ status_code = 200
     /\ pc \in {"lines", "returned_done", "ended"}
     /\ \A i \in 1..Len(lines) : lines[i].kind \in {"blank", "object"})
    => /\ out = FramesOfLines(lines, request.model)
       /\ translator_state = "STREAMING" <=> ~\E i \in 1..Len(lines) : IsDoneEvent(lines[i])

C19_Witness ==
    /\ endpoint = "chat" /\ request.stream /\ pc = "returned_done"
    /\ Len(lines) = 3
    /\ lines[1].kind = "blank"
    /\ lines[2].kind = "object" /\ ~HasText(lines[2]) /\ ~IsDoneEvent(lines[2])
    /\ HasText(lines[3]) /\ IsDoneEvent(lines[3])
    /\ Len(out) = 3

(***************************************************************************)
(* C20: for a request with stream set, the upstream is called only once    *)
(* the 200 answer has been started; from then on the HTTP answer never     *)
(* changes, so it is never an error status: neither an unreachable         *)
(* upstream, nor a status other than 200, nor a read fault shows in it.    *)
(***************************************************************************)
StatusCommitted == http = [status |-> 200, detail |-> ""]

C20_StreamStatusUntouched ==
    /\ [](request.stream => (http.status \in {0, 200} /\ (posts > 0 => StatusCommitted)))
    /\ [][(request.stream /\ posts' > posts) => StatusCommitted]_vars
    /\ [][(request.stream /\ StatusCommitted) => http' = http]_vars

C20_Witness ==
    /\ endpoint = "completions" /\ request.stream
    /\ pc = "raised" /\ exc.type = "ReadError"
    /\ status_code = 404
    /\ StatusCommitted

(***************************************************************************)
(* C17: two requests in flight, under every interleaving of their steps.   *)
(* (1) What a request has been sent is a function of its own request and   *)
(* of the upstream events it has itself consumed: between two lines and at *)
(* the end of a stream the content chunks are the fragments of its own     *)
(* lines, every chunk names its own model, and a non-stream answer carries *)
(* the text of its own upstream answer.  (2) A step of the running request *)
(* leaves the locals of the other untouched, and resuming the other        *)
(* exchanges the two unchanged.  (3) Wherever the other request is         *)
(* stopped, a request that has not finished can take its next step.        *)
(***************************************************************************)
AtRest ==
    pc \in {"lines", "returned_error", "returned_done", "ended", "excepted", "raised"}

Returned == StreamFinished \/ pc \in {"done", "health_returned"}

OwnEventsOnly ==
    /\ (request.stream /\ AtRest) =>
           /\ ContentOf(out) = FragmentsOf(lines)
           /\ \A i \in 1..Len(out) : IsChunk(out[i]) => out[i].model = request.model
    /\ (endpoint \in {"chat", "completions"} /\ ~request.stream
        /\ pc = "done" /\ http.status = 200) =>
           /\ result.model = request.model
           /\ (IF endpoint = "chat" THEN result.message.content ELSE result.text)
                = dict_get_text(ollama_response.response, "")

C17_RequestsIndependent ==
    /\ [](OwnEventsOnly /\ (Returned \/ ENABLED TaskStep))
    /\ [][other' = other \/ (other' = Task /\ Task' = other)]_vars

C17_Witness ==
    /\ endpoint = "chat" /\ request.stream /\ pc = "returned_done"
    /\ ContentOf(out) = <<"lo">>
    /\ other.endpoint = "chat" /\ other.request.stream
    /\ other.pc = "lines" /\ other.posts = 1
    /\ other.lines = <<[kind |-> "object", response |-> "Hel", done |-> "false"]>>
    /\ Len(other.script) = 2

====
